---- MODULE Spec2Model ----
(***************************************************************************)
(* TrackToss: the track queue of the SongCleaner view (keep / discard /    *)
(* refill / reset), the Spotify calls it makes (getTracks, removeTrack)    *)
(* and the persistence of its progress in App (cleaningStates and          *)
(* localStorage).                                                          *)
(*                                                                         *)
(* JavaScript runs one task at a time: every action below is one task, run *)
(* from its start to the next await (or to its end), together with the     *)
(* watcher that Vue flushes after it.  A call that is awaited is a record  *)
(* in inflight; the server handles it in a step of its own and the code    *)
(* after the await runs in a later step.                                   *)
(*                                                                         *)
(* A track is identified by the rank of the time it was added to the       *)
(* collection: track 1 is the oldest.  The remote listing is newest first. *)
(***************************************************************************)
EXTENDS Integers, Sequences, FiniteSets, TLC

VARIABLES
    remote,          \* the collection at Spotify, newest first
    mounted,         \* a SongCleaner view is open (selectedPlaylist is set)
    sc,              \* the refs of the SongCleaner instance
    inflight,        \* the awaited calls of the SongCleaner instance
    cleaningStates,  \* App: cleaningStates.value[playlistId], or NoState
    localStorage,    \* the item 'tracktoss_cleaning_states', or NoItem
    queueAliased,    \* sc.tracks is the array the stored queueTracks names
    removedOk,       \* history: tracks whose removal call returned success
    clicks,          \* history: how often Keep, Discard, Retry or reset was clicked
    lastFailed,      \* history: the track whose discard last failed in this view, or 0
    storageFull,     \* localStorage.setItem throws (the quota is exceeded)
    errorHandler,    \* the refs, the prop and the timers of an ErrorHandler instance
    spotifyPlayer,   \* the refs, the prop and the awaited calls of a SpotifyPlayer instance
    ev               \* history: what the last step was

vars == <<remote, mounted, sc, inflight, cleaningStates, localStorage,
          queueAliased, removedOk, clicks, lastFailed, storageFull, errorHandler,
          spotifyPlayer, ev>>

----------------------------------------------------------------------------
(* Bounds of the model.  bufferSize and minTracksThreshold are 30 and 10   *)
(* in SongCleaner; the model runs them scaled down so that a collection of *)
(* a few tracks spans several pages.                                       *)

bufferSize == 3

minTracksThreshold == 2

MaxRemote == 4

MaxInFlight == 2

MaxClicks == 2

MaxLimit == 5

MaxTotal == 7

MinStatus == 400

MaxStatus == 599

MaxHeaderLen == 2

----------------------------------------------------------------------------
(* Helpers on sequences *)

Max(a, b) == IF a >= b THEN a ELSE b

Min(a, b) == IF a <= b THEN a ELSE b

Range(s) == {s[i] : i \in 1..Len(s)}

Reverse(s) == [i \in 1..Len(s) |-> s[Len(s) + 1 - i]]

RemoveAt(s, i) == SubSeq(s, 1, i - 1) \o SubSeq(s, i + 1, Len(s))

\* Array.prototype.shift: the array without its first element
Shift(s) == SubSeq(s, 2, Len(s))

\* a collection of n tracks, newest first
Listing(n) == [i \in 1..n |-> n + 1 - i]

----------------------------------------------------------------------------
(* Errors *)

Null == [type |-> "null"]

(* A JavaScript number: an integer, or NaN.  A header is the sequence of   *)
(* its characters, as Headers.get returns it (no blanks around it).        *)
Number(n) == [nan |-> FALSE, value |-> n]

NaN == [nan |-> TRUE, value |-> 0]

DigitValue ==
    ("0" :> 0) @@ ("1" :> 1) @@ ("2" :> 2) @@ ("3" :> 3) @@ ("4" :> 4) @@
    ("5" :> 5) @@ ("6" :> 6) @@ ("7" :> 7) @@ ("8" :> 8) @@ ("9" :> 9)

\* the longest prefix of text that is made of decimal digits
RECURSIVE DigitPrefix(_)
DigitPrefix(text) ==
    IF text = <<>> \/ text[1] \notin DOMAIN DigitValue THEN <<>>
    ELSE <<text[1]>> \o DigitPrefix(Tail(text))

\* the value of a sequence of decimal digits
RECURSIVE DecimalValue(_)
DecimalValue(digits) ==
    IF digits = <<>> THEN 0
    ELSE 10 * DecimalValue(SubSeq(digits, 1, Len(digits) - 1))
             + DigitValue[digits[Len(digits)]]

\* parseInt(text): an optional sign, then the digits up to the first character
\* that is not one; NaN when there is no digit
ParseInt(text) ==
    LET signed == text # <<>> /\ text[1] \in {"+", "-"}
        digits == DigitPrefix(IF signed THEN Tail(text) ELSE text)
    IN  IF digits = <<>> THEN NaN
        ELSE Number(IF signed /\ text[1] = "-" THEN 0 - DecimalValue(digits)
                    ELSE DecimalValue(digits))

\* a thrown Error instance
JsError(msg) == [isError |-> TRUE, message |-> msg]

\* parseSpotifyError: the SpotifyError of a response that is not ok; retryAfter
\* is the Retry-After header, <<>> when the header is absent or empty
ParseSpotifyError(status, retryAfter) ==
    CASE status = 429 ->
           [type |-> "rate_limit",
            message |-> "Rate limit exceeded. Please wait before trying again.",
            retryAfter |-> IF retryAfter # <<>> THEN ParseInt(retryAfter)
                           ELSE Number(60),
            status |-> status]
      [] status = 401 ->
           [type |-> "authentication",
            message |-> "Authentication failed. Please log in again.",
            status |-> status]
      [] status = 403 ->
           [type |-> "permission",
            message |-> "You don't have permission to perform this action.",
            status |-> status]
      [] status = 404 ->
           [type |-> "unknown", message |-> "Resource not found.", status |-> status]
      [] status \in {500, 502, 503, 504} ->
           [type |-> "network",
            message |-> "Spotify service is temporarily unavailable. Please try again later.",
            status |-> status]
      [] OTHER ->
           [type |-> "unknown", message |-> "Unknown error occurred", status |-> status]

\* the statuses of a response that is not ok
Statuses == MinStatus..MaxStatus

\* characters of a Retry-After header: digits, a sign, a letter of a date
HeaderChars == {"0", "3", "7", "-", "G"}

Headers == UNION {[1..n -> HeaderChars] : n \in 0..MaxHeaderLen}

\* what fetchWithAuth throws: an Error when there is no token, the parsed
\* SpotifyError (not an Error instance) when the response is not ok
Thrown == {JsError("No access token available"),
           [isError |-> FALSE, error |-> ParseSpotifyError(429, <<>>)]}

\* what fetchWithAuth throws when no response arrives: there is no token, or
\* fetch itself rejects
Unsent == {JsError("No access token available"), JsError("Failed to fetch")}

\* ErrorHandler showing a string as it is
NormalizedErrorUnchanged(error) ==
    IF error = Null THEN Null ELSE error

\* ErrorHandler, normalizedError: a string becomes an error of type unknown
NormalizedError(error) ==
    IF error = Null \/ (error.type = "string" /\ error.message = "") THEN Null
    ELSE IF error.type = "string" THEN [type |-> "unknown", message |-> error.message]
    ELSE error

----------------------------------------------------------------------------
(* getTracks *)

\* Math.max(0, total - limit - offset)
ActualOffset(total, limit, offset) == Max(0, total - limit - offset)

\* the items Spotify returns for ?limit=&offset= of a listing
PageOf(listing, limit, offset) ==
    SubSeq(listing, offset + 1, Min(offset + limit, Len(listing)))

\* the call getTracks(playlistId, limit, offset, true), about to probe the total
GetTracksCall(caller, limit, offset) ==
    [kind |-> "getTracks", caller |-> caller, op |-> "none", phase |-> "probe",
     limit |-> limit, offset |-> offset, actualOffset |-> 0,
     items |-> <<>>, total |-> 0, track |-> 0, snap |-> <<>>]

\* getTracks not in reverse mode: the page is requested at the offset given
GetTracksProbedForward(call, listing) ==
    [call EXCEPT !.phase = "page", !.actualOffset = call.offset]

\* the probe /tracks?limit=1 answered: the page request goes out
GetTracksProbed(call, listing) ==
    [call EXCEPT !.phase = "page",
                 !.actualOffset = ActualOffset(Len(listing), call.limit, call.offset)]

\* the page request answered
GetTracksPaged(call, listing) ==
    [call EXCEPT !.phase = "response",
                 !.items = PageOf(listing, call.limit, call.actualOffset),
                 !.total = Len(listing)]

\* getTracks without the reversal of the page
GetTracksReturnUnreversed(call) == [items |-> call.items, total |-> call.total]

\* what getTracks returns: items.reverse() and the page's total
GetTracksReturn(call) == [items |-> Reverse(call.items), total |-> call.total]

----------------------------------------------------------------------------
(* removeTrack *)

RemoveTrackCall(track, snap) ==
    [kind |-> "removeTrack", caller |-> "handleDiscard", op |-> "none",
     phase |-> "sent", limit |-> 0, offset |-> 0, actualOffset |-> 0,
     items |-> <<>>, total |-> 0, track |-> track, snap |-> snap]

\* the collection after DELETE of a track
Removed(listing, track) == SelectSeq(listing, LAMBDA x : x # track)

----------------------------------------------------------------------------
(* App: the persisted progress *)

NoState == [absent |-> TRUE]

NoItem == <<>>

\* the CleaningState the watcher emits
CleaningState(st) ==
    [keptTracks |-> st.keptTracks, discardedTracks |-> st.discardedTracks,
     queueTracks |-> st.tracks, lastProcessedOffset |-> st.lastProcessedOffset,
     totalTracks |-> st.totalTracks]

(* JSON.stringify of cleaningStates: the text, as the sequence of its      *)
(* values in key order, each array preceded by its length.                 *)
Stringify(state) ==
    IF state = NoState THEN <<0>>
    ELSE <<1>> \o <<Len(state.keptTracks)>> \o state.keptTracks
              \o <<Len(state.discardedTracks)>> \o state.discardedTracks
              \o <<Len(state.queueTracks)>> \o state.queueTracks
              \o <<state.lastProcessedOffset, state.totalTracks>>

\* JSON.parse of that text
Parse(text) ==
    IF text[1] = 0 THEN NoState
    ELSE LET k == text[2]
             d == text[3 + k]
             q == text[4 + k + d]
         IN  [keptTracks |-> SubSeq(text, 3, 2 + k),
              discardedTracks |-> SubSeq(text, 4 + k, 3 + k + d),
              queueTracks |-> SubSeq(text, 5 + k + d, 4 + k + d + q),
              lastProcessedOffset |-> text[5 + k + d + q],
              totalTracks |-> text[6 + k + d + q]]

\* getCleaningState: cleaningStates.value[playlistId] || null
GetCleaningState(states) == states

\* Math.round of the quotient a / b of two integers, b > 0: halves go up
Round(a, b) == (2 * a + b) \div (2 * b)

\* what getProgressPercentage returns: null, or a number
NoProgress == [null |-> TRUE, value |-> 0]

Progress(n) == [null |-> FALSE, value |-> n]

\* getProgressPercentage
GetProgressPercentage(states) ==
    LET state == GetCleaningState(states)
    IN  IF state = NoState \/ state.totalTracks = 0 THEN NoProgress
        ELSE LET processed == Len(state.keptTracks) + Len(state.discardedTracks)
             IN  Progress(Round(processed * 100, state.totalTracks))

----------------------------------------------------------------------------
(* SongCleaner: the refs of a new instance *)

NewCleaner ==
    [tracks |-> <<>>, keptTracks |-> <<>>, discardedTracks |-> <<>>,
     loading |-> FALSE, error |-> Null,
     lastProcessedOffset |-> 0, totalTracks |-> 0]

(* A handler, run to its next await, gives the refs it leaves (st), the    *)
(* calls it now awaits (out) and whether it wrote a ref the watcher        *)
(* observes (dirty).                                                       *)
Result(st, out, dirty) == [st |-> st, out |-> out, dirty |-> dirty]

\* err instanceof Error ? err.message : fallback
MessageOr(err, fallback) ==
    IF err.isError THEN [type |-> "string", message |-> err.message] ELSE fallback

\* loadInitialTracks, up to the await of getTracks
LoadInitialTracks(st) ==
    Result([st EXCEPT !.loading = TRUE, !.error = Null],
           <<GetTracksCall("loadInitialTracks", bufferSize, 0)>>, FALSE)

\* loadInitialTracks, after getTracks returned
LoadInitialTracksThen(st, response) ==
    Result([st EXCEPT !.tracks = response.items,
                      !.totalTracks = response.total,
                      !.lastProcessedOffset = 0,
                      !.loading = FALSE],
           <<>>, TRUE)

\* loadInitialTracks, after getTracks threw
LoadInitialTracksCatch(st, err) ==
    Result([st EXCEPT !.error = MessageOr(err, [type |-> "string",
                                                message |-> "Failed to load tracks"]),
                      !.loading = FALSE],
           <<>>, FALSE)

\* loadMoreTracks(offset), up to the await of getTracks
LoadMoreTracks(st, offset) ==
    Result(st, <<GetTracksCall("loadMoreTracks", bufferSize, offset)>>, FALSE)

\* loadMoreTracks replacing the queue by the page
LoadMoreTracksThenReplacing(st, response) ==
    Result([st EXCEPT !.tracks = response.items,
                      !.totalTracks = IF st.totalTracks = 0 THEN response.total
                                      ELSE st.totalTracks],
           <<>>, TRUE)

\* loadMoreTracks, after getTracks returned
LoadMoreTracksThen(st, response) ==
    Result([st EXCEPT !.tracks = st.tracks \o response.items,
                      !.totalTracks = IF st.totalTracks = 0 THEN response.total
                                      ELSE st.totalTracks],
           <<>>, TRUE)

\* loadMoreTracks showing the failure as loadInitialTracks does
LoadMoreTracksCatchShown(st, err) ==
    Result([st EXCEPT !.error = MessageOr(err, [type |-> "string",
                                                message |-> "Failed to load tracks"])],
           <<>>, FALSE)

\* loadMoreTracks, after getTracks threw: logged only
LoadMoreTracksCatch(st, err) == Result(st, <<>>, FALSE)

\* nextTrack, up to the await of loadMoreTracks
NextTrack(st) ==
    IF st.tracks = <<>> THEN Result(st, <<>>, FALSE)
    ELSE LET shifted == [st EXCEPT !.tracks = Shift(st.tracks)]
             counted == [shifted EXCEPT !.lastProcessedOffset =
                             Len(st.keptTracks) + Len(st.discardedTracks)]
         IN  IF Len(counted.tracks) < minTracksThreshold
             THEN Result(counted,
                         LoadMoreTracks(counted, counted.lastProcessedOffset).out,
                         TRUE)
             ELSE Result(counted, <<>>, TRUE)

\* handleKeep putting the track in front of keptTracks
HandleKeepUnshift(st) ==
    IF st.tracks = <<>> THEN Result(st, <<>>, FALSE)
    ELSE LET currentTrack == st.tracks[1]
             next == NextTrack([st EXCEPT !.keptTracks = <<currentTrack>> \o st.keptTracks])
         IN  Result(next.st, next.out, TRUE)

\* handleKeep
HandleKeep(st) ==
    IF st.tracks = <<>> THEN Result(st, <<>>, FALSE)
    ELSE LET currentTrack == st.tracks[1]
             next == NextTrack([st EXCEPT !.keptTracks = Append(st.keptTracks, currentTrack)])
         IN  Result(next.st, next.out, TRUE)

\* handleDiscard recording the track before the removal call returns
HandleDiscardOptimistic(st) ==
    IF st.tracks = <<>> THEN Result(st, <<>>, FALSE)
    ELSE LET currentTrack == st.tracks[1]
         IN  Result([st EXCEPT !.error = Null,
                               !.discardedTracks = Append(st.discardedTracks, currentTrack)],
                    <<RemoveTrackCall(currentTrack,
                                      <<st.tracks, st.keptTracks, st.discardedTracks,
                                        st.lastProcessedOffset>>)>>,
                    TRUE)

\* handleDiscard, up to the await of removeTrack
HandleDiscard(st) ==
    IF st.tracks = <<>> THEN Result(st, <<>>, FALSE)
    ELSE LET currentTrack == st.tracks[1]
         IN  Result([st EXCEPT !.error = Null],
                    <<RemoveTrackCall(currentTrack,
                                      <<st.tracks, st.keptTracks, st.discardedTracks,
                                        st.lastProcessedOffset>>)>>,
                    FALSE)

\* handleDiscard putting the track in front of discardedTracks
HandleDiscardThenUnshift(st, currentTrack) ==
    LET next == NextTrack([st EXCEPT !.discardedTracks =
                                         <<currentTrack>> \o st.discardedTracks])
    IN  Result(next.st, next.out, TRUE)

\* handleDiscard, after removeTrack returned
HandleDiscardThen(st, currentTrack) ==
    LET next == NextTrack([st EXCEPT !.discardedTracks =
                                         Append(st.discardedTracks, currentTrack)])
    IN  Result(next.st, next.out, TRUE)

\* handleDiscard, after removeTrack threw
HandleDiscardCatch(st, err) ==
    Result([st EXCEPT !.error = IF err.isError
                                 THEN [type |-> "string", message |-> err.message]
                                 ELSE err.error],
           <<>>, FALSE)

\* handleRetry
HandleRetry(st) ==
    LET cleared == [st EXCEPT !.error = Null]
    IN  IF Len(cleared.tracks) > 0 THEN HandleDiscard(cleared)
        ELSE Result(cleared, <<>>, FALSE)

\* handleDismissError
HandleDismissError(st) == Result([st EXCEPT !.error = Null], <<>>, FALSE)

\* handleResetProgress
HandleResetProgress(st) ==
    LET load == LoadInitialTracks([st EXCEPT !.tracks = <<>>,
                                             !.keptTracks = <<>>,
                                             !.discardedTracks = <<>>,
                                             !.lastProcessedOffset = 0,
                                             !.totalTracks = 0])
    IN  Result(load.st, load.out, TRUE)

\* onMounted refilling whatever the length of the restored queue
OnMountedAlwaysRefilling(initialState) ==
    IF initialState # NoState
    THEN LET restored == [NewCleaner EXCEPT
                              !.keptTracks = initialState.keptTracks,
                              !.discardedTracks = initialState.discardedTracks,
                              !.tracks = initialState.queueTracks,
                              !.lastProcessedOffset = initialState.lastProcessedOffset,
                              !.totalTracks = initialState.totalTracks]
         IN  Result(restored,
                    LoadMoreTracks(restored, restored.lastProcessedOffset).out,
                    TRUE)
    ELSE LoadInitialTracks(NewCleaner)

\* onMounted recomputing the offset instead of restoring it
OnMountedOffsetFromQueue(initialState) ==
    IF initialState # NoState
    THEN LET restored == [NewCleaner EXCEPT
                              !.keptTracks = initialState.keptTracks,
                              !.discardedTracks = initialState.discardedTracks,
                              !.tracks = initialState.queueTracks,
                              !.lastProcessedOffset = Len(initialState.keptTracks)
                                  + Len(initialState.discardedTracks)
                                  + Len(initialState.queueTracks),
                              !.totalTracks = initialState.totalTracks]
         IN  IF Len(restored.tracks) < minTracksThreshold
             THEN Result(restored,
                         LoadMoreTracks(restored, restored.lastProcessedOffset).out,
                         TRUE)
             ELSE Result(restored, <<>>, TRUE)
    ELSE LoadInitialTracks(NewCleaner)

\* onMounted
OnMounted(initialState) ==
    IF initialState # NoState
    THEN LET restored == [NewCleaner EXCEPT
                              !.keptTracks = initialState.keptTracks,
                              !.discardedTracks = initialState.discardedTracks,
                              !.tracks = initialState.queueTracks,
                              !.lastProcessedOffset = initialState.lastProcessedOffset,
                              !.totalTracks = initialState.totalTracks]
         IN  IF Len(restored.tracks) < minTracksThreshold
             THEN Result(restored,
                         LoadMoreTracks(restored, restored.lastProcessedOffset).out,
                         TRUE)
             ELSE Result(restored, <<>>, TRUE)
    ELSE LoadInitialTracks(NewCleaner)

----------------------------------------------------------------------------
(* ErrorHandler: the countdown of a rate limit.  A timer of setInterval    *)
(* fires once a second; timers are the timers that were set and not        *)
(* cleared, due those that have still to fire in the running second, and   *)
(* elapsed the seconds since the error prop last changed.                  *)

MaxRetryAfter == 3

MaxTimers == 3

NoTimer == 0

NewErrorHandler ==
    [error |-> Null, countdown |-> 0, countdownInterval |-> NoTimer,
     timers |-> {}, due |-> {}, elapsed |-> 0]

\* a number in a condition
Truthy(number) == ~number.nan /\ number.value # 0

\* window.setInterval: the handle of a new timer, which first fires a second
\* from now
SetInterval(eh) == CHOOSE id \in 1..MaxTimers : id \notin eh.timers

StartCountdown(eh, retryAfter) ==
    LET id == SetInterval(eh)
    IN  [eh EXCEPT !.countdown = retryAfter,
                   !.countdownInterval = id,
                   !.timers = @ \cup {id}]

StopCountdown(eh) ==
    [eh EXCEPT !.timers = @ \ {eh.countdownInterval},
               !.due = @ \ {eh.countdownInterval},
               !.countdownInterval = NoTimer,
               !.countdown = 0]

\* the watcher of normalizedError
WatchNormalizedError(eh, error) ==
    IF error # Null /\ error.type = "rate_limit" /\ Truthy(error.retryAfter)
    THEN StartCountdown(eh, error.retryAfter.value)
    ELSE StopCountdown(eh)

\* the callback of the timer
CountdownTick(eh) ==
    LET ticked == [eh EXCEPT !.countdown = @ - 1]
    IN  IF ticked.countdown <= 0 THEN StopCountdown(ticked) ELSE ticked

IsRetryDisabled(eh) ==
    LET error == NormalizedError(eh.error)
    IN  IF error = Null THEN TRUE
        ELSE error.type = "rate_limit" /\ eh.countdown > 0

----------------------------------------------------------------------------
(* SpotifyPlayer: the watcher of the trackId prop.  trackId counts the     *)
(* tracks shown: the player is mounted with track 1 and every change of    *)
(* the prop shows the next one.  pausing are the runs of the watcher that  *)
(* await player.pause(), starting the awaited calls of playTrack, requests *)
(* the tracks of all calls of playTrack in the order they were made.       *)

MaxTrackChanges == 3

NoDevice == 0

NewSpotifyPlayer ==
    [trackId |-> 1, isPlaying |-> FALSE, error |-> Null, player |-> FALSE,
     deviceId |-> NoDevice, pausing |-> <<>>, starting |-> <<>>, requests |-> <<>>]

\* the watcher after player.pause(), or from its start when nothing plays
WatchTrackIdPaused(sp, newTrackId) ==
    LET stopped == [sp EXCEPT !.isPlaying = FALSE, !.error = Null]
    IN  IF stopped.deviceId # NoDevice
        THEN [stopped EXCEPT !.starting = Append(@, newTrackId),
                             !.requests = Append(@, newTrackId)]
        ELSE stopped

\* the watcher of props.trackId, to its first await
WatchTrackId(sp, newTrackId) ==
    IF sp.player /\ sp.isPlaying
    THEN [sp EXCEPT !.pausing = Append(@, newTrackId)]
    ELSE WatchTrackIdPaused(sp, newTrackId)

\* playTrack threw
WatchTrackIdCatch(sp, err) ==
    [sp EXCEPT !.error = MessageOr(err, [type |-> "string",
                                        message |-> "Failed to play track"]),
               !.isPlaying = FALSE]

----------------------------------------------------------------------------
(* The state after a step *)

Event(op) ==
    [op |-> op, settled |-> "none", track |-> 0, page |-> <<>>, snap |-> <<>>,
     limit |-> 0, actualOffset |-> 0, remoteTotal |-> 0,
     caller |-> "none", thrown |-> Null, header |-> <<>>]

\* the calls a handler issued, marked with the user's operation that awaits them
Tag(out, op) == [i \in 1..Len(out) |-> [out[i] EXCEPT !.op = op]]

\* the operation a step settles: the one that awaited call, unless the handler
\* went on to await another call
Settles(call, res) == IF res.out = <<>> THEN call.op ELSE "none"

\* saveCleaningStates: setItem, whose exception is caught and logged
SaveCleaningStates(states) ==
    localStorage' = IF storageFull THEN localStorage ELSE Stringify(states)

\* updateCleaningState without the call of saveCleaningStates
UpdateCleaningStateUnsaved(state) ==
    /\ cleaningStates' = state
    /\ UNCHANGED localStorage

(* updateCleaningState: the entry is replaced and the item rewritten.      *)
UpdateCleaningState(state) ==
    /\ cleaningStates' = state
    /\ SaveCleaningStates(state)

\* the view showing the exception of a save that failed
CommitShowingSaveFailure(res, rest, op, assigns) ==
    /\ inflight' = rest \o Tag(res.out, op)
    /\ IF mounted
       THEN /\ sc' = IF res.dirty /\ storageFull
                    THEN [res.st EXCEPT !.error = [type |-> "string",
                                                   message |-> "QuotaExceededError"]]
                    ELSE res.st
            /\ queueAliased' = TRUE
            /\ IF res.dirty THEN UpdateCleaningState(CleaningState(res.st))
                            ELSE UNCHANGED <<cleaningStates, localStorage>>
       ELSE /\ sc' = IF inflight' = <<>> THEN NewCleaner ELSE res.st
            /\ queueAliased' = IF inflight' = <<>> THEN TRUE
                                ELSE queueAliased /\ ~assigns
            /\ cleaningStates' =
                   IF cleaningStates = NoState THEN NoState
                   ELSE [cleaningStates EXCEPT
                            !.keptTracks = res.st.keptTracks,
                            !.discardedTracks = res.st.discardedTracks,
                            !.queueTracks = IF queueAliased /\ ~assigns
                                            THEN res.st.tracks ELSE @]
            /\ UNCHANGED localStorage

(* The refs after a handler ran (res), with the calls still awaited (rest) *)
(* and those it issued for operation op.  In an open view the watcher      *)
(* emits state-update when a watched ref was written.  In a closed view    *)
(* the watcher is stopped, but the stored entry still names the arrays of  *)
(* the instance: a push or shift shows in the entry, an assignment of a    *)
(* new array (assigns) does not; the item in localStorage is not           *)
(* rewritten.  The instance is dropped with its last call.                 *)
Commit(res, rest, op, assigns) ==
    /\ inflight' = rest \o Tag(res.out, op)
    /\ IF mounted
       THEN /\ sc' = res.st
            /\ queueAliased' = TRUE
            /\ IF res.dirty THEN UpdateCleaningState(CleaningState(res.st))
                            ELSE UNCHANGED <<cleaningStates, localStorage>>
       ELSE /\ sc' = IF inflight' = <<>> THEN NewCleaner ELSE res.st
            /\ queueAliased' = IF inflight' = <<>> THEN TRUE
                                ELSE queueAliased /\ ~assigns
            /\ cleaningStates' =
                   IF cleaningStates = NoState THEN NoState
                   ELSE [cleaningStates EXCEPT
                            !.keptTracks = res.st.keptTracks,
                            !.discardedTracks = res.st.discardedTracks,
                            !.queueTracks = IF queueAliased /\ ~assigns
                                            THEN res.st.tracks ELSE @]
            /\ UNCHANGED localStorage

Outstanding(kind) == {i \in 1..Len(inflight) : inflight[i].kind = kind}

\* the model's cap on the calls awaited at once and on the clicks of a run
Room(res) ==
    /\ Len(inflight) + Len(res.out) <= MaxInFlight
    /\ clicks < MaxClicks
    /\ clicks' = clicks + 1

----------------------------------------------------------------------------
(* App: a playlist is selected, the view is closed, the page is reloaded *)

\* handlePlaylistSelect: SongCleaner is mounted with initial-state.  The model
\* follows one instance at a time: the playlist is selected again once the
\* calls of the closed view have settled.
Open ==
    /\ ~mounted
    /\ inflight = <<>>
    /\ LET initialState == GetCleaningState(cleaningStates)
           res == OnMounted(initialState)
       IN  /\ mounted' = TRUE
           /\ sc' = res.st
           /\ inflight' = Tag(res.out, "mount")
           /\ queueAliased' = TRUE
           /\ IF res.dirty THEN UpdateCleaningState(CleaningState(res.st))
                           ELSE UNCHANGED <<cleaningStates, localStorage>>
           /\ ev' = [Event(IF initialState # NoState THEN "resume" ELSE "fresh")
                        EXCEPT !.snap = initialState]
    /\ lastFailed' = 0
    /\ UNCHANGED <<remote, removedOk, clicks, storageFull,
                   errorHandler, spotifyPlayer>>

\* handleCloseCleaner: the view is unmounted, its awaited calls go on
Close ==
    /\ mounted
    /\ mounted' = FALSE
    /\ sc' = IF inflight = <<>> THEN NewCleaner ELSE sc
    /\ queueAliased' = IF inflight = <<>> THEN TRUE ELSE cleaningStates # NoState
    /\ ev' = Event("close")
    /\ UNCHANGED <<remote, inflight, cleaningStates, localStorage, removedOk, clicks,
                   lastFailed, storageFull,
                   errorHandler, spotifyPlayer>>

\* the page is loaded again: loadCleaningStates reads the item
Reload ==
    /\ mounted' = FALSE
    /\ sc' = NewCleaner
    /\ inflight' = <<>>
    /\ queueAliased' = TRUE
    /\ cleaningStates' = IF localStorage = NoItem THEN NoState ELSE Parse(localStorage)
    /\ ev' = Event("reload")
    /\ lastFailed' = 0
    /\ UNCHANGED <<remote, localStorage, removedOk, clicks, storageFull,
                   errorHandler, spotifyPlayer>>

----------------------------------------------------------------------------
(* SongCleaner: the buttons *)

\* the Keep and Discard buttons are rendered
ActionsShown == mounted /\ ~sc.loading /\ Len(sc.tracks) > 0

ClickKeep ==
    /\ ActionsShown
    /\ LET res == HandleKeep(sc)
       IN  /\ Room(res)
           /\ Commit(res, inflight, "keep", FALSE)
           /\ ev' = [Event("keep") EXCEPT !.track = sc.tracks[1],
                                          !.settled = IF res.out = <<>> THEN "keep"
                                                      ELSE "none"]
    /\ UNCHANGED <<remote, mounted, removedOk, lastFailed, storageFull,
                   errorHandler, spotifyPlayer>>

ClickDiscard ==
    /\ ActionsShown
    /\ LET res == HandleDiscard(sc)
       IN  /\ Room(res)
           /\ Commit(res, inflight, "discard", FALSE)
           /\ ev' = [Event("discard") EXCEPT !.track = sc.tracks[1]]
    /\ UNCHANGED <<remote, mounted, removedOk, lastFailed, storageFull,
                   errorHandler, spotifyPlayer>>

\* the Retry button of ErrorHandler: rendered for an error that is not a
\* permission error, enabled once the countdown of a rate limit has run out
ClickRetry ==
    /\ mounted
    /\ sc.error # Null
    /\ sc.error.type # "permission"
    /\ LET res == HandleRetry(sc)
       IN  /\ Room(res)
           /\ Commit(res, inflight, "discard", FALSE)
           /\ ev' = Event("retry")
    /\ UNCHANGED <<remote, mounted, removedOk, lastFailed, storageFull,
                   errorHandler, spotifyPlayer>>

\* the dismiss button of ErrorHandler
ClickDismiss ==
    /\ mounted
    /\ sc.error # Null
    /\ Commit(HandleDismissError(sc), inflight, "none", FALSE)
    /\ ev' = Event("dismiss")
    /\ UNCHANGED <<remote, mounted, removedOk, clicks, lastFailed, storageFull,
                   errorHandler, spotifyPlayer>>

\* the reset button
ClickReset ==
    /\ mounted
    /\ LET res == HandleResetProgress(sc)
       IN  /\ Room(res)
           /\ Commit(res, inflight, "reset", TRUE)
           /\ ev' = Event("reset")
    /\ UNCHANGED <<remote, mounted, removedOk, lastFailed, storageFull,
                   errorHandler, spotifyPlayer>>

----------------------------------------------------------------------------
(* Spotify answers a request *)

ServerProbe(i) ==
    /\ inflight[i].kind = "getTracks"
    /\ inflight[i].phase = "probe"
    /\ inflight' = [inflight EXCEPT ![i] = GetTracksProbed(inflight[i], remote)]
    /\ ev' = Event("probe")
    /\ UNCHANGED <<remote, mounted, sc, cleaningStates, localStorage,
                   queueAliased, removedOk, clicks, lastFailed, storageFull,
                   errorHandler, spotifyPlayer>>

ServerPage(i) ==
    /\ inflight[i].kind = "getTracks"
    /\ inflight[i].phase = "page"
    /\ inflight' = [inflight EXCEPT ![i] = GetTracksPaged(inflight[i], remote)]
    /\ ev' = Event("page")
    /\ UNCHANGED <<remote, mounted, sc, cleaningStates, localStorage,
                   queueAliased, removedOk, clicks, lastFailed, storageFull,
                   errorHandler, spotifyPlayer>>

ServerRemove(i) ==
    /\ inflight[i].kind = "removeTrack"
    /\ inflight[i].phase = "sent"
    /\ remote' = Removed(remote, inflight[i].track)
    /\ removedOk' = removedOk \cup {inflight[i].track}
    /\ inflight' = [inflight EXCEPT ![i].phase = "response"]
    /\ ev' = Event("removed")
    /\ UNCHANGED <<mounted, sc, cleaningStates, localStorage, queueAliased, clicks,
                   lastFailed, storageFull,
                   errorHandler, spotifyPlayer>>

----------------------------------------------------------------------------
(* The code after an await *)

\* getTracks returned to loadInitialTracks or loadMoreTracks
GetTracksThen(i) ==
    /\ inflight[i].kind = "getTracks"
    /\ inflight[i].phase = "response"
    /\ LET call == inflight[i]
           response == GetTracksReturn(call)
           res == IF call.caller = "loadInitialTracks"
                  THEN LoadInitialTracksThen(sc, response)
                  ELSE LoadMoreTracksThen(sc, response)
       IN  /\ Commit(res, RemoveAt(inflight, i), call.op, TRUE)
           /\ ev' = [Event(call.caller) EXCEPT
                        !.settled = Settles(call, res),
                        !.page = response.items,
                        !.limit = call.limit,
                        !.actualOffset = call.actualOffset,
                        !.remoteTotal = response.total]
    /\ UNCHANGED <<remote, mounted, removedOk, clicks, lastFailed, storageFull,
                   errorHandler, spotifyPlayer>>

\* a request of getTracks threw
GetTracksCatch(i) ==
    /\ inflight[i].kind = "getTracks"
    /\ inflight[i].phase \in {"probe", "page"}
    /\ \E err \in Thrown :
          LET call == inflight[i]
              res == IF call.caller = "loadInitialTracks"
                     THEN LoadInitialTracksCatch(sc, err)
                     ELSE LoadMoreTracksCatch(sc, err)
          IN  /\ Commit(res, RemoveAt(inflight, i), call.op, FALSE)
              /\ ev' = [Event("getTracksFailed") EXCEPT !.settled = Settles(call, res),
                                                        !.caller = call.caller,
                                                        !.thrown = err]
    /\ UNCHANGED <<remote, mounted, removedOk, clicks, lastFailed, storageFull,
                   errorHandler, spotifyPlayer>>

\* removeTrack returned to handleDiscard
RemoveTrackThen(i) ==
    /\ inflight[i].kind = "removeTrack"
    /\ inflight[i].phase = "response"
    /\ LET call == inflight[i]
           res == HandleDiscardThen(sc, call.track)
       IN  /\ Commit(res, RemoveAt(inflight, i), call.op, FALSE)
           /\ ev' = [Event("discarded") EXCEPT !.settled = Settles(call, res),
                                               !.track = call.track,
                                               !.snap = call.snap]
    /\ UNCHANGED <<remote, mounted, removedOk, clicks, lastFailed, storageFull,
                   errorHandler, spotifyPlayer>>

\* removeTrack threw err; header is the Retry-After header of the response
RemoveTrackThrows(i, err, header) ==
    /\ inflight[i].kind = "removeTrack"
    /\ inflight[i].phase = "sent"
    /\ LET call == inflight[i]
           res == HandleDiscardCatch(sc, err)
       IN  /\ Commit(res, RemoveAt(inflight, i), call.op, FALSE)
           /\ ev' = [Event("discardFailed") EXCEPT !.settled = Settles(call, res),
                                                   !.track = call.track,
                                                   !.snap = call.snap,
                                                   !.thrown = err,
                                                   !.header = header]
    /\ lastFailed' = inflight[i].track
    /\ UNCHANGED <<remote, mounted, removedOk, clicks, storageFull,
                   errorHandler, spotifyPlayer>>

\* removeTrack threw
RemoveTrackCatch(i) == \E err \in Thrown : RemoveTrackThrows(i, err, <<>>)

\* the request of removeTrack was answered with a status that is not ok:
\* fetchWithAuth throws what parseSpotifyError makes of the response
RemoveTrackRejected(i) ==
    \E status \in Statuses, header \in Headers :
        RemoveTrackThrows(i, [isError |-> FALSE,
                              error |-> ParseSpotifyError(status, header)], header)

\* the request of removeTrack got no response
RemoveTrackUnsent(i) == \E err \in Unsent : RemoveTrackThrows(i, err, <<>>)

----------------------------------------------------------------------------
(* The program *)

Init ==
    /\ remote \in {Listing(n) : n \in 0..MaxRemote}
    /\ mounted = FALSE
    /\ sc = NewCleaner
    /\ inflight = <<>>
    /\ cleaningStates = NoState
    /\ localStorage = NoItem
    /\ queueAliased = TRUE
    /\ removedOk = {}
    /\ clicks = 0
    /\ lastFailed = 0
    /\ storageFull = FALSE
    /\ errorHandler = NewErrorHandler
    /\ spotifyPlayer = NewSpotifyPlayer
    /\ ev = Event("init")

Next ==
    \/ Open
    \/ Close
    \/ Reload
    \/ ClickKeep
    \/ ClickDiscard
    \/ ClickRetry
    \/ ClickDismiss
    \/ ClickReset
    \/ \E i \in 1..Len(inflight) : ServerProbe(i)
    \/ \E i \in 1..Len(inflight) : ServerPage(i)
    \/ \E i \in 1..Len(inflight) : ServerRemove(i)
    \/ \E i \in 1..Len(inflight) : GetTracksThen(i)
    \/ \E i \in 1..Len(inflight) : GetTracksCatch(i)
    \/ \E i \in 1..Len(inflight) : RemoveTrackThen(i)
    \/ \E i \in 1..Len(inflight) : RemoveTrackCatch(i)

Spec == Init /\ [][Next]_vars

----------------------------------------------------------------------------
(* getTracks on its own: a fresh load of limit tracks from a collection of *)
(* any size, nothing else going on.                                        *)

InitPage ==
    /\ remote \in {Listing(n) : n \in 0..MaxTotal}
    /\ mounted = TRUE
    /\ sc = LoadInitialTracks(NewCleaner).st
    /\ inflight \in {Tag(<<GetTracksCall("loadInitialTracks", limit, 0)>>, "mount") :
                        limit \in 1..MaxLimit}
    /\ cleaningStates = NoState
    /\ localStorage = NoItem
    /\ queueAliased = TRUE
    /\ removedOk = {}
    /\ clicks = 0
    /\ lastFailed = 0
    /\ storageFull = FALSE
    /\ errorHandler = NewErrorHandler
    /\ spotifyPlayer = NewSpotifyPlayer
    /\ ev = Event("fresh")

NextPage ==
    \/ \E i \in 1..Len(inflight) : ServerProbe(i)
    \/ \E i \in 1..Len(inflight) : ServerPage(i)
    \/ \E i \in 1..Len(inflight) : GetTracksThen(i)
    \/ \E i \in 1..Len(inflight) : GetTracksCatch(i)

SpecPage == InitPage /\ [][NextPage]_vars

----------------------------------------------------------------------------
(* parseSpotifyError on its own: Discard was clicked on the first of two   *)
(* tracks and the request is answered with any status that is not ok and   *)
(* any Retry-After header, or not answered; the user may retry.            *)

InitClassify ==
    /\ remote = Listing(2)
    /\ mounted = TRUE
    /\ sc = [NewCleaner EXCEPT !.tracks = <<1, 2>>, !.totalTracks = 2]
    /\ inflight = Tag(HandleDiscard(sc).out, "discard")
    /\ cleaningStates = CleaningState(sc)
    /\ localStorage = Stringify(cleaningStates)
    /\ queueAliased = TRUE
    /\ removedOk = {}
    /\ clicks = 1
    /\ lastFailed = 0
    /\ storageFull = FALSE
    /\ errorHandler = NewErrorHandler
    /\ spotifyPlayer = NewSpotifyPlayer
    /\ ev = [Event("discard") EXCEPT !.track = 1]

NextClassify ==
    \/ \E i \in 1..Len(inflight) : RemoveTrackRejected(i)
    \/ \E i \in 1..Len(inflight) : RemoveTrackUnsent(i)
    \/ ClickRetry

SpecClassify == InitClassify /\ [][NextClassify]_vars

----------------------------------------------------------------------------
(* The program with a localStorage that takes no item: every setItem       *)
(* throws.                                                                 *)

InitQuota ==
    /\ remote \in {Listing(n) : n \in 0..MaxRemote}
    /\ mounted = FALSE
    /\ sc = NewCleaner
    /\ inflight = <<>>
    /\ cleaningStates = NoState
    /\ localStorage = NoItem
    /\ queueAliased = TRUE
    /\ removedOk = {}
    /\ clicks = 0
    /\ lastFailed = 0
    /\ storageFull = TRUE
    /\ errorHandler = NewErrorHandler
    /\ spotifyPlayer = NewSpotifyPlayer
    /\ ev = Event("init")

SpecQuota == InitQuota /\ [][Next]_vars

----------------------------------------------------------------------------
(* ErrorHandler on its own: its error prop takes the errors SongCleaner    *)
(* passes it, one after another, while the seconds pass.  InitComponent is *)
(* a component just mounted, with no view of a collection open.            *)

cleanerVars == <<remote, mounted, sc, inflight, cleaningStates, localStorage,
                 queueAliased, removedOk, clicks, lastFailed, storageFull>>

\* the error of a response with status 429 whose Retry-After parses to number
RateLimited(number) == [ParseSpotifyError(429, <<>>) EXCEPT !.retryAfter = number]

HandlerErrors ==
    {Null, [type |-> "string", message |-> "Failed to fetch"],
     ParseSpotifyError(503, <<>>), RateLimited(NaN)}
        \cup {RateLimited(Number(n)) : n \in 0..MaxRetryAfter}

\* SongCleaner assigns its error ref: the prop changes and the watcher runs.
\* A SpotifyError is a new object every time; a string is a value.
ErrorPropChanges ==
    /\ \E error \in HandlerErrors :
          /\ error # errorHandler.error \/ error.type \notin {"null", "string"}
          /\ Cardinality(errorHandler.timers) < MaxTimers
          /\ errorHandler' =
                 [WatchNormalizedError([errorHandler EXCEPT !.error = error],
                                       NormalizedError(error))
                     EXCEPT !.elapsed = 0]
    /\ ev' = Event("error")
    /\ UNCHANGED <<cleanerVars, spotifyPlayer>>

\* a timer fires
TimerFires(id) ==
    /\ id \in errorHandler.due
    /\ errorHandler' = CountdownTick([errorHandler EXCEPT !.due = @ \ {id}])
    /\ ev' = Event("tick")
    /\ UNCHANGED <<cleanerVars, spotifyPlayer>>

\* every timer has fired in this second: the next second begins
SecondPasses ==
    /\ errorHandler.due = {}
    /\ errorHandler.elapsed <= MaxRetryAfter
    /\ errorHandler' = [errorHandler EXCEPT !.due = errorHandler.timers,
                                            !.elapsed = @ + 1]
    /\ ev' = Event("second")
    /\ UNCHANGED <<cleanerVars, spotifyPlayer>>

InitComponent ==
    /\ remote = <<>>
    /\ mounted = FALSE
    /\ sc = NewCleaner
    /\ inflight = <<>>
    /\ cleaningStates = NoState
    /\ localStorage = NoItem
    /\ queueAliased = TRUE
    /\ removedOk = {}
    /\ clicks = 0
    /\ lastFailed = 0
    /\ storageFull = FALSE
    /\ errorHandler = NewErrorHandler
    /\ spotifyPlayer = NewSpotifyPlayer
    /\ ev = Event("init")

NextCountdown ==
    \/ ErrorPropChanges
    \/ \E id \in 1..MaxTimers : TimerFires(id)
    \/ SecondPasses

SpecCountdown == InitComponent /\ [][NextCountdown]_vars

----------------------------------------------------------------------------
(* SpotifyPlayer on its own: the Web Playback SDK loads and reports its    *)
(* device, SongCleaner shows one track after another, the SDK reports      *)
(* that playback started or paused.  The promises of player.pause()        *)
(* resolve in the order of the calls.                                      *)

\* window.onSpotifyWebPlaybackSDKReady
SdkReady ==
    /\ ~spotifyPlayer.player
    /\ spotifyPlayer' = [spotifyPlayer EXCEPT !.player = TRUE]
    /\ ev' = Event("sdkReady")
    /\ UNCHANGED <<cleanerVars, errorHandler>>

\* the listener of 'ready'
DeviceReady ==
    /\ spotifyPlayer.player
    /\ spotifyPlayer.deviceId = NoDevice
    /\ spotifyPlayer' = [spotifyPlayer EXCEPT !.deviceId = 1]
    /\ ev' = Event("ready")
    /\ UNCHANGED <<cleanerVars, errorHandler>>

\* the listener of 'player_state_changed'
PlayerStateChanged ==
    /\ spotifyPlayer.player
    /\ \E paused \in BOOLEAN :
          spotifyPlayer' = [spotifyPlayer EXCEPT !.isPlaying = ~paused]
    /\ ev' = Event("playerStateChanged")
    /\ UNCHANGED <<cleanerVars, errorHandler>>

\* tracks[0] of SongCleaner is another track: the prop changes, the watcher runs
TrackIdChanges ==
    /\ spotifyPlayer.trackId <= MaxTrackChanges
    /\ LET newTrackId == spotifyPlayer.trackId + 1
       IN  spotifyPlayer' = WatchTrackId([spotifyPlayer EXCEPT !.trackId = newTrackId],
                                         newTrackId)
    /\ ev' = Event("trackId")
    /\ UNCHANGED <<cleanerVars, errorHandler>>

\* player.pause() returned to the watcher
PauseResolves ==
    /\ spotifyPlayer.pausing # <<>>
    /\ spotifyPlayer' = WatchTrackIdPaused([spotifyPlayer EXCEPT !.pausing = Tail(@)],
                                           Head(spotifyPlayer.pausing))
    /\ ev' = Event("paused")
    /\ UNCHANGED <<cleanerVars, errorHandler>>

\* playTrack returned to the watcher
PlayTrackThen(i) ==
    /\ i \in 1..Len(spotifyPlayer.starting)
    /\ spotifyPlayer' = [spotifyPlayer EXCEPT !.starting = RemoveAt(@, i)]
    /\ ev' = Event("started")
    /\ UNCHANGED <<cleanerVars, errorHandler>>

\* playTrack threw
PlayTrackCatch(i) ==
    /\ i \in 1..Len(spotifyPlayer.starting)
    /\ \E err \in Thrown :
          spotifyPlayer' =
              WatchTrackIdCatch([spotifyPlayer EXCEPT !.starting = RemoveAt(@, i)], err)
    /\ ev' = Event("startFailed")
    /\ UNCHANGED <<cleanerVars, errorHandler>>

NextPlayer ==
    \/ SdkReady
    \/ DeviceReady
    \/ PlayerStateChanged
    \/ TrackIdChanges
    \/ PauseResolves
    \/ \E i \in 1..MaxTrackChanges : PlayTrackThen(i)
    \/ \E i \in 1..MaxTrackChanges : PlayTrackCatch(i)

SpecPlayer == InitComponent /\ [][NextPlayer]_vars

----------------------------------------------------------------------------
(* A review from its opening: every call succeeds, the collection changes  *)
(* by the removals of this view only, and the user decides on the track    *)
(* shown once the calls of the previous decision have returned.  Every     *)
(* call is answered and the user goes on deciding while a track is shown   *)
(* (for MaxDecisions decisions).                                           *)

MaxReview == 7

MaxDecisions == 6

RoomToDecide(res) ==
    /\ inflight = <<>>
    /\ Len(res.out) <= MaxInFlight
    /\ clicks < MaxDecisions
    /\ clicks' = clicks + 1

ReviewKeep ==
    /\ ActionsShown
    /\ LET res == HandleKeep(sc)
       IN  /\ RoomToDecide(res)
           /\ Commit(res, inflight, "keep", FALSE)
           /\ ev' = [Event("keep") EXCEPT !.track = sc.tracks[1],
                                          !.settled = IF res.out = <<>> THEN "keep"
                                                      ELSE "none"]
    /\ UNCHANGED <<remote, mounted, removedOk, lastFailed, storageFull,
                   errorHandler, spotifyPlayer>>

ReviewDiscard ==
    /\ ActionsShown
    /\ LET res == HandleDiscard(sc)
       IN  /\ RoomToDecide(res)
           /\ Commit(res, inflight, "discard", FALSE)
           /\ ev' = [Event("discard") EXCEPT !.track = sc.tracks[1]]
    /\ UNCHANGED <<remote, mounted, removedOk, lastFailed, storageFull,
                   errorHandler, spotifyPlayer>>

InitReview ==
    /\ remote \in {Listing(n) : n \in 1..MaxReview}
    /\ mounted = TRUE
    /\ sc = LoadInitialTracks(NewCleaner).st
    /\ inflight = Tag(LoadInitialTracks(NewCleaner).out, "mount")
    /\ cleaningStates = NoState
    /\ localStorage = NoItem
    /\ queueAliased = TRUE
    /\ removedOk = {}
    /\ clicks = 0
    /\ lastFailed = 0
    /\ storageFull = FALSE
    /\ errorHandler = NewErrorHandler
    /\ spotifyPlayer = NewSpotifyPlayer
    /\ ev = Event("fresh")

Decides == ReviewKeep \/ ReviewDiscard

Responds ==
    \/ \E i \in 1..Len(inflight) : ServerProbe(i)
    \/ \E i \in 1..Len(inflight) : ServerPage(i)
    \/ \E i \in 1..Len(inflight) : ServerRemove(i)
    \/ \E i \in 1..Len(inflight) : GetTracksThen(i)
    \/ \E i \in 1..Len(inflight) : RemoveTrackThen(i)

NextReview ==
    \/ ReviewKeep
    \/ ReviewDiscard
    \/ \E i \in 1..Len(inflight) : ServerProbe(i)
    \/ \E i \in 1..Len(inflight) : ServerPage(i)
    \/ \E i \in 1..Len(inflight) : ServerRemove(i)
    \/ \E i \in 1..Len(inflight) : GetTracksThen(i)
    \/ \E i \in 1..Len(inflight) : RemoveTrackThen(i)

SpecReview ==
    InitReview /\ [][NextReview]_vars /\ WF_vars(Decides) /\ WF_vars(Responds)

----------------------------------------------------------------------------
(* Properties *)

Ids(s) == Range(s)

NoDuplicates(s) == \A i, j \in 1..Len(s) : s[i] = s[j] => i = j

Queue == <<sc.tracks, sc.keptTracks, sc.discardedTracks, sc.lastProcessedOffset>>

RemovalsOutstanding == Cardinality(Outstanding("removeTrack"))

(* C1: no track identifier is in more than one of tracks, keptTracks and   *)
(* discardedTracks.                                                        *)
ContainersDisjoint ==
    mounted =>
        /\ Ids(sc.tracks) \cap Ids(sc.keptTracks) = {}
        /\ Ids(sc.tracks) \cap Ids(sc.discardedTracks) = {}
        /\ Ids(sc.keptTracks) \cap Ids(sc.discardedTracks) = {}

(* C2: when the removal call of a discard fails, the track is still the    *)
(* first of tracks and not in discardedTracks, tracks, keptTracks,         *)
(* discardedTracks and lastProcessedOffset are what they were when the     *)
(* discard was invoked, and error is set.                                  *)
FailedDiscardLeavesQueue ==
    (mounted /\ ev.op = "discardFailed") =>
        /\ sc.tracks # <<>>
        /\ sc.tracks[1] = ev.track
        /\ ev.track \notin Ids(sc.discardedTracks)
        /\ Queue = ev.snap
        /\ sc.error # Null

(* C3: every track in discardedTracks had a removal call that returned     *)
(* success.                                                                *)
DiscardedWereRemoved == Ids(sc.discardedTracks) \subseteq removedOk

DiscardedWereRemovedWitness ==
    /\ mounted
    /\ ev.op = "discarded"
    /\ ev.track \in Ids(sc.discardedTracks)

(* C4: while a removal call is outstanding the queue does not change and   *)
(* no second removal call is issued.                                       *)
QueueFrozenWhileRemoving ==
    [][(RemovalsOutstanding >= 1 /\ RemovalsOutstanding' >= RemovalsOutstanding)
          => (Queue' = Queue /\ RemovalsOutstanding' <= 1)]_vars

(* C5: after a keep or a discard has settled, lastProcessedOffset is the   *)
(* number of tracks in keptTracks and discardedTracks.                     *)
OffsetAfterSettled ==
    (mounted /\ ev.settled \in {"keep", "discard"}) =>
        sc.lastProcessedOffset = Len(sc.keptTracks) + Len(sc.discardedTracks)

(* C6: when a refill completes with a page, tracks becomes the tracks of   *)
(* that moment followed by the page.                                       *)
RefillAppendsOnly ==
    [][(mounted /\ ev'.op = "loadMoreTracks") => sc'.tracks = sc.tracks \o ev'.page]_vars

RefillAppendsOnlyWitness ==
    /\ mounted
    /\ ev.op = "loadMoreTracks"
    /\ ev.page # <<>>
    /\ Len(sc.tracks) > Len(ev.page)

(* C7: a track a refill appends is in none of tracks, keptTracks and       *)
(* discardedTracks already, so tracks never holds a track twice.           *)
RefillAppendsUnreviewed ==
    (mounted /\ ev.op = "loadMoreTracks") =>
        /\ NoDuplicates(sc.tracks)
        /\ Ids(ev.page) \cap (Ids(sc.keptTracks) \cup Ids(sc.discardedTracks)) = {}

(* C8: tracks is ordered from the oldest track to the newest.              *)
PendingOldestFirst ==
    mounted => \A i, j \in 1..Len(sc.tracks) : i < j => sc.tracks[i] < sc.tracks[j]

(* C9: a fresh load of limit L from a collection of T tracks requests the  *)
(* page at offset max(0, T - L) and sets tracks to the min(L, T) oldest    *)
(* tracks, oldest first.                                                   *)
FreshLoadOldestPage ==
    ev.op = "loadInitialTracks" =>
        /\ ev.actualOffset = Max(0, Len(remote) - ev.limit)
        /\ sc.tracks = [i \in 1..Min(ev.limit, Len(remote)) |-> i]

FreshLoadOldestPageWitness ==
    /\ ev.op = "loadInitialTracks"
    /\ Len(remote) = 7
    /\ ev.limit = 3
    /\ ev.actualOffset = 4
    /\ sc.tracks = <<1, 2, 3>>

(* C10: opening a collection that has a saved snapshot restores tracks,    *)
(* keptTracks, discardedTracks, lastProcessedOffset and totalTracks to the *)
(* saved values, and the item written to localStorage reads back as the    *)
(* snapshot that was saved.                                                *)
ResumeRestoresSnapshot ==
    /\ ev.op = "resume" => CleaningState(sc) = ev.snap
    /\ (mounted /\ cleaningStates # NoState) => Parse(localStorage) = cleaningStates

ResumeRestoresSnapshotWitness ==
    /\ ev.op = "resume"
    /\ sc.tracks # <<>>
    /\ sc.keptTracks # <<>>
    /\ sc.discardedTracks # <<>>
    /\ sc.lastProcessedOffset = 2

ResetStartsOver ==
    /\ (mounted /\ ev.op = "reset") =>
          /\ CleaningState(sc) = CleaningState(NewCleaner)
          /\ \E i \in Outstanding("getTracks") :
                /\ inflight[i].op = "reset"
                /\ inflight[i].caller = "loadInitialTracks"
                /\ inflight[i].offset = 0
    /\ (mounted /\ ev.op = "loadInitialTracks" /\ ev.settled = "reset") =>
          /\ sc.tracks = ev.page
          /\ sc.keptTracks = <<>>
          /\ sc.discardedTracks = <<>>

(* C13: after a reset the store holds no snapshot of the collection:       *)
(* getCleaningState gives none and the item in localStorage has none.      *)
ResetClearsSnapshot ==
    (mounted /\ ev.op = "reset") =>
        /\ GetCleaningState(cleaningStates) = NoState
        /\ localStorage = NoItem \/ Parse(localStorage) = NoState

(* C14: a retry issues a removal call only for the track whose discard     *)
(* last failed, and that track is then the first of tracks.                *)
RetryRepeatsFailedDiscard ==
    [][(mounted /\ ev'.op = "retry") =>
          \A i \in (Len(inflight) + 1)..Len(inflight') :
              inflight'[i].kind = "removeTrack" =>
                  /\ inflight'[i].track = lastFailed
                  /\ sc.tracks[1] = lastFailed]_vars

\* the step in which the getTracks call of loadInitialTracks, issued by onMounted
\* of a view opened without a snapshot, throws
FreshLoadFails ==
    /\ mounted
    /\ ev'.op = "getTracksFailed"
    /\ \E i \in Outstanding("getTracks") :
          /\ inflight[i].op = "mount"
          /\ inflight[i].caller = "loadInitialTracks"
          /\ inflight' = RemoveAt(inflight, i)

(* C15: when the first fetch of a view opened without a snapshot fails,    *)
(* tracks, keptTracks and discardedTracks are empty, lastProcessedOffset   *)
(* and totalTracks are 0 and error is set.                                 *)
FailedFreshLoadLeavesEmpty ==
    [][FreshLoadFails =>
          /\ CleaningState(sc') = CleaningState(NewCleaner)
          /\ sc'.error # Null]_vars

(* C16: the error shown after a failed first fetch is the SpotifyError     *)
(* that parseSpotifyError made of the response, with its type and its      *)
(* retryAfter.                                                             *)
FailedLoadShowsClassifiedError ==
    (mounted /\ ev.op = "getTracksFailed" /\ ev.caller = "loadInitialTracks"
             /\ ~ev.thrown.isError) =>
        sc.error = ev.thrown.error

(* C17: a refill whose fetch fails changes nothing: error, tracks,         *)
(* keptTracks, discardedTracks, lastProcessedOffset and totalTracks are    *)
(* after the failure what they were before it, and the operation that      *)
(* awaited the refill ends.                                                *)
FailedRefillIsSilent ==
    [][(mounted /\ ev'.op = "getTracksFailed" /\ ev'.caller = "loadMoreTracks") =>
          /\ sc' = sc
          /\ ev'.settled \in {"keep", "discard", "mount"}]_vars

FailedRefillIsSilentWitness ==
    /\ mounted
    /\ ev.op = "getTracksFailed"
    /\ ev.caller = "loadMoreTracks"
    /\ ev.settled = "keep"
    /\ sc.keptTracks # <<>>
    /\ sc.error = Null

\* "No more tracks to review" is rendered and nothing is being fetched
NothingLeft ==
    /\ mounted
    /\ sc.tracks = <<>>
    /\ ~sc.loading
    /\ Outstanding("getTracks") = {}

(* C18: when the view shows that nothing is left to review, every track of *)
(* the collection has been kept or discarded in this review.               *)
NothingLeftOnlyWhenExhausted ==
    NothingLeft => Ids(remote) \subseteq Ids(sc.keptTracks) \cup Ids(sc.discardedTracks)

(* C19: parseSpotifyError gives type network for every status from 500 to  *)
(* 599.                                                                    *)
ServerErrorsAreNetwork ==
    (ev.op = "discardFailed" /\ ~ev.thrown.isError
        /\ ev.thrown.error.status \in 500..599) =>
        /\ ev.thrown.error.type = "network"
        /\ sc.error.type = "network"

(* C20: for a 429 response parseSpotifyError gives type rate_limit with a  *)
(* retryAfter that is a non-negative integer: 60 when there is no          *)
(* Retry-After header, the number of the header when there is one.         *)
RetryAfterIsSeconds ==
    (ev.op = "discardFailed" /\ ~ev.thrown.isError
        /\ ev.thrown.error.status = 429) =>
        LET retryAfter == ev.thrown.error.retryAfter
        IN  /\ ev.thrown.error.type = "rate_limit"
            /\ ~retryAfter.nan
            /\ retryAfter.value >= 0
            /\ ev.header = <<>> => retryAfter.value = 60
            /\ (ev.header # <<>> /\ DigitPrefix(ev.header) = ev.header) =>
                   retryAfter.value = DecimalValue(ev.header)

Kinds == {"rate_limit", "authentication", "permission", "network", "unknown"}

Continued ==
    IF ev'.op \in {"loadInitialTracks", "loadMoreTracks", "getTracksFailed",
                   "discarded", "discardFailed"}
    THEN 1 ELSE 0

Issued == {inflight'[i] : i \in (Len(inflight) - Continued + 1)..Len(inflight')}

(* C22: Keep on a queue that is not empty moves its first track to the end *)
(* of keptTracks and issues no removal call, discardedTracks and the       *)
(* collection stay as they are; handleKeep on an empty queue changes       *)
(* nothing and issues no call.                                             *)
KeepMovesFirstToKept ==
    /\ [](sc.tracks = <<>> => HandleKeep(sc) = Result(sc, <<>>, FALSE))
    /\ [][ev'.op = "keep" =>
             /\ sc'.keptTracks = Append(sc.keptTracks, sc.tracks[1])
             /\ sc'.tracks = Tail(sc.tracks)
             /\ sc'.discardedTracks = sc.discardedTracks
             /\ remote' = remote
             /\ \A call \in Issued : call.kind # "removeTrack"]_vars

KeepMovesFirstToKeptWitness ==
    /\ mounted
    /\ ev.op = "keep"
    /\ Len(sc.keptTracks) = 2
    /\ sc.keptTracks[2] = ev.track
    /\ sc.tracks # <<>>

\* s is the beginning of t
IsPrefix(s, t) == Len(s) <= Len(t) /\ SubSeq(t, 1, Len(s)) = s

(* C23: a discard of the first track X of the queue whose removal call     *)
(* returns ends with X at the end of discardedTracks, with tracks being    *)
(* the rest of the queue (and what a refill appended) and with keptTracks  *)
(* as it was; handleDiscard on an empty queue changes nothing and issues   *)
(* no call.                                                                *)
DiscardMovesFirstToDiscarded ==
    /\ sc.tracks = <<>> => HandleDiscard(sc) = Result(sc, <<>>, FALSE)
    /\ (mounted /\ ev.op = "discarded") =>
          /\ ev.snap[1][1] = ev.track
          /\ sc.discardedTracks = Append(ev.snap[3], ev.track)
          /\ IsPrefix(Tail(ev.snap[1]), sc.tracks)
          /\ ev.track \notin Ids(sc.tracks)
          /\ sc.keptTracks = ev.snap[2]

\* the tracks held by the view
Held(st) == Ids(st.tracks) \cup Ids(st.keptTracks) \cup Ids(st.discardedTracks)

(* C24: a keep or a discard only moves tracks between tracks, keptTracks   *)
(* and discardedTracks: every track held before the step is held after it. *)
TracksOnlyMove ==
    [][(mounted /\ ev'.op \in {"keep", "discarded"}) => Held(sc) \subseteq Held(sc')]_vars

(* C25: after a load or a refill whose fetch returned, totalTracks is the   *)
(* total of that response.                                                 *)
TotalIsLastReported ==
    (mounted /\ ev.op \in {"loadInitialTracks", "loadMoreTracks"}) =>
        sc.totalTracks = ev.remoteTotal

(* C26: the progress percentage of the collection is null when there is no *)
(* snapshot or its totalTracks is 0, and otherwise an integer from 0 to    *)
(* 100, the rounded share of kept and discarded tracks in totalTracks.     *)
ProgressIsPercentage ==
    LET percentage == GetProgressPercentage(cleaningStates)
    IN  IF cleaningStates = NoState \/ cleaningStates.totalTracks = 0
        THEN percentage = NoProgress
        ELSE /\ ~percentage.null
             /\ percentage.value \in 0..100
             /\ percentage.value =
                    Round(100 * (Len(cleaningStates.keptTracks)
                                 + Len(cleaningStates.discardedTracks)),
                          cleaningStates.totalTracks)

(* C27: when the write of the snapshot fails, the step that caused it      *)
(* leaves the refs as the handler set them, the entry in memory is         *)
(* replaced all the same, and no error is shown.                           *)
FailedSaveIsHarmless ==
    [][(storageFull /\ mounted' /\ CleaningState(sc') # CleaningState(sc)) =>
          /\ localStorage' = localStorage
          /\ cleaningStates' = CleaningState(sc')
          /\ sc'.error \in {sc.error, Null}
          /\ ev'.op = "keep" => sc' = HandleKeep(sc).st
          /\ ev'.op = "discarded" => sc' = HandleDiscardThen(sc, ev'.track).st
          /\ ev'.op = "reset" => sc' = HandleResetProgress(sc).st
          /\ ev'.op = "loadMoreTracks" => sc'.tracks = sc.tracks \o ev'.page
          /\ ev'.op = "loadInitialTracks" => sc'.tracks = ev'.page]_vars

FailedSaveIsHarmlessWitness ==
    /\ storageFull
    /\ mounted
    /\ ev.op = "keep"
    /\ sc.keptTracks # <<>>
    /\ sc.error = Null
    /\ cleaningStates = CleaningState(sc)
    /\ localStorage = NoItem

\* t is s, or s with one more element at its end
GrowsByOne(s, t) == IsPrefix(s, t) /\ Len(t) <= Len(s) + 1

(* C28: in every step of an open view that is not a reset, keptTracks and  *)
(* discardedTracks keep what they hold and get at most one more track at   *)
(* their end.                                                              *)
ListsAppendOnly ==
    [][(mounted /\ mounted' /\ ev'.op # "reset") =>
          /\ GrowsByOne(sc.keptTracks, sc'.keptTracks)
          /\ GrowsByOne(sc.discardedTracks, sc'.discardedTracks)]_vars

ListsAppendOnlyWitness ==
    /\ mounted
    /\ ev.op = "discarded"
    /\ Len(sc.discardedTracks) = 2
    /\ sc.discardedTracks[2] = ev.track

\* the refill calls a step has issued
RefillsIssued ==
    {call \in Issued : call.kind = "getTracks" /\ call.caller = "loadMoreTracks"}

(* C29: the step that ends a keep or a discard issues a refill exactly     *)
(* when fewer than minTracksThreshold tracks are left in the queue, one    *)
(* call at offset lastProcessedOffset, which is then the number of kept    *)
(* and discarded tracks; otherwise it issues no fetch.                     *)
AdvanceRefillsWhenLow ==
    [][(mounted /\ ev'.op \in {"keep", "discarded"}) =>
          /\ \A call \in Issued : call \in RefillsIssued
          /\ IF Len(sc'.tracks) < minTracksThreshold
             THEN /\ Cardinality(RefillsIssued) = 1
                  /\ \A call \in RefillsIssued :
                        /\ call.offset = sc'.lastProcessedOffset
                        /\ call.offset = Len(sc'.keptTracks) + Len(sc'.discardedTracks)
             ELSE Issued = {}]_vars

(* C30: a view opened from a snapshot whose queue has fewer than           *)
(* minTracksThreshold tracks awaits one refill at the lastProcessedOffset  *)
(* of the snapshot, one opened from a longer queue awaits no call; neither *)
(* calls loadInitialTracks.                                                *)
ResumeRefillsWhenLow ==
    ev.op = "resume" =>
        /\ \A i \in 1..Len(inflight) : inflight[i].caller # "loadInitialTracks"
        /\ IF Len(ev.snap.queueTracks) < minTracksThreshold
           THEN /\ Len(inflight) = 1
                /\ inflight[1].kind = "getTracks"
                /\ inflight[1].caller = "loadMoreTracks"
                /\ inflight[1].offset = ev.snap.lastProcessedOffset
                /\ inflight[1].limit = bufferSize
           ELSE inflight = <<>>

ResumeRefillsWhenLowWitness ==
    /\ ev.op = "resume"
    /\ Len(ev.snap.queueTracks) < minTracksThreshold
    /\ ev.snap.lastProcessedOffset > 0
    /\ Len(inflight) = 1
    /\ inflight[1].offset = ev.snap.lastProcessedOffset

(* C31: getTracks starts with the probe; the probe's answer fixes the      *)
(* offset of the page at max(0, total - limit - offset) for the total the  *)
(* collection has at that moment; the page is then served at that offset;  *)
(* the tracks already in the queue stay in their order.                    *)
ProbeBeforePage ==
    [][/\ \A call \in Issued : call.kind = "getTracks" => call.phase = "probe"
       /\ ev'.op = "probe" =>
             /\ sc' = sc
             /\ \E i \in Outstanding("getTracks") :
                   /\ inflight[i].phase = "probe"
                   /\ inflight' = [inflight EXCEPT ![i] =
                          [@ EXCEPT !.phase = "page",
                                    !.actualOffset =
                                        Max(0, Len(remote) - inflight[i].limit
                                                   - inflight[i].offset)]]
       /\ ev'.op = "page" =>
             /\ sc' = sc
             /\ \E i \in Outstanding("getTracks") :
                   /\ inflight[i].phase = "page"
                   /\ inflight' = [inflight EXCEPT ![i] =
                          [@ EXCEPT !.phase = "response",
                                    !.total = Len(remote),
                                    !.items = PageOf(remote, inflight[i].limit,
                                                     inflight[i].actualOffset)]]
       /\ (mounted /\ ev'.op = "loadMoreTracks") => IsPrefix(sc.tracks, sc'.tracks)]_vars

ProbeBeforePageWitness ==
    /\ ev.op = "probe"
    /\ removedOk # {}
    /\ \E i \in Outstanding("getTracks") :
          /\ inflight[i].phase = "page"
          /\ inflight[i].caller = "loadMoreTracks"
          /\ inflight[i].offset > 0
          /\ inflight[i].actualOffset = Max(0, Len(remote) - bufferSize - inflight[i].offset)

(* C32: after a keep or a discard has put its track in keptTracks or       *)
(* discardedTracks, that track is no longer in tracks.                     *)
DecidedTrackLeftQueue ==
    (mounted /\ ev.op \in {"keep", "discarded"}) =>
        /\ ev.track \in Ids(sc.keptTracks) \cup Ids(sc.discardedTracks)
        /\ ev.track \notin Ids(sc.tracks)

(* C33: while a rate_limit error with retry-after n > 0 is shown and fewer *)
(* than n seconds have passed since it appeared, the retry button is       *)
(* disabled; the countdown is never negative; a timer fires only while the *)
(* countdown is positive, and takes one off it.                            *)
RetryWaitsForCountdown ==
    [][/\ (/\ errorHandler'.error.type = "rate_limit"
           /\ Truthy(errorHandler'.error.retryAfter)
           /\ errorHandler'.elapsed < errorHandler'.error.retryAfter.value)
          => IsRetryDisabled(errorHandler')
       /\ errorHandler'.countdown >= 0
       /\ ev'.op = "tick" =>
             /\ errorHandler.countdown > 0
             /\ errorHandler'.countdown = errorHandler.countdown - 1]_vars

(* C39: a call of playTrack is never made for a track shown before the     *)
(* track of an earlier call, and once no run of the watcher is waiting the *)
(* call made last is for the current track.                                *)
StartTargetsCurrentTrack ==
    [][Len(spotifyPlayer'.requests) > Len(spotifyPlayer.requests) =>
          LET requests == spotifyPlayer'.requests
              last == requests[Len(requests)]
          IN  /\ \A i \in 1..Len(requests) : requests[i] <= last
              /\ spotifyPlayer'.pausing = <<>> => last = spotifyPlayer'.trackId]_vars

\* the refills that are awaited
Refills ==
    {i \in Outstanding("getTracks") : inflight[i].caller = "loadMoreTracks"}

(* C36: at most one call of loadMoreTracks is awaited at any time.         *)
OneRefillAtATime == mounted => Cardinality(Refills) <= 1

\* the awaited fetches of a reset, in the order they were issued
ResetLoads ==
    SelectSeq(inflight, LAMBDA call : call.op = "reset"
                                      /\ call.caller = "loadInitialTracks")

(* C37: while the fetch of a reset is awaited, the code that runs after a  *)
(* refill or a removal returns (they were issued before the reset) leaves  *)
(* tracks, keptTracks and discardedTracks as they are.                     *)
ResetDropsEarlierCalls ==
    [][(/\ mounted
        /\ ev'.op \in {"loadMoreTracks", "discarded"}
        /\ ResetLoads # <<>>
        /\ ResetLoads' = ResetLoads)
       => /\ sc'.tracks = sc.tracks
          /\ sc'.keptTracks = sc.keptTracks
          /\ sc'.discardedTracks = sc.discardedTracks]_vars

(* C38: when the removal of a discard returns after the view was closed,   *)
(* the item in localStorage, if it holds a snapshot, has the track in      *)
(* discardedTracks and not in queueTracks.                                 *)
ClosedDiscardIsSaved ==
    (~mounted /\ ev.op = "discarded") =>
        \/ localStorage = NoItem
        \/ Parse(localStorage) = NoState
        \/ /\ ev.track \in Ids(Parse(localStorage).discardedTracks)
           /\ ev.track \notin Ids(Parse(localStorage).queueTracks)

\* the review is over: nothing is left to decide and no call is awaited
ReviewOver == mounted /\ ~sc.loading /\ sc.tracks = <<>> /\ inflight = <<>>

DiscardedFirst == bufferSize - minTracksThreshold + 1

\* the user did not discard the tracks up to the first refill and keep the
\* later ones
OffScript ==
    \/ ev.op = "keep" /\ clicks <= DiscardedFirst
    \/ ev.op = "discard" /\ clicks > DiscardedFirst

====
